---- MODULE Spec2Model ----
(***************************************************************************)
(* Node containers of tsuru's docker provisioner                           *)
(* (provision/docker/nodecontainer/nodecontainer.go).                      *)
(*                                                                         *)
(* Names, pools and node addresses are TLA+ strings ("" is the empty       *)
(* string).  Image references, digests and pull output are sequences of    *)
(* tokens, so that strings.SplitN and fmt.Sprintf act on them as in the    *)
(* code: "x/y:latest" is <<"x", "/", "y", ":", "latest">> and the empty    *)
(* image is << >>.                                                         *)
(***************************************************************************)
EXTENDS Integers, Sequences, FiniteSets, TLC

\* ------------------------------------------------------------------ bounds
\* Largest number of (node, configuration name) units of one run.
MaxUnits == 3
\* Largest number of units of a run where every call of a unit may fail
\* (UnitSpec) and where recreation runs twice (RepeatSpec).
MaxDetail == 1
\* Largest number of recreation runs in RepeatSpec.
MaxRuns == 2
\* Largest maxTries and longest fault script given to pullWithRetry alone.
MaxTries == 4
\* Largest number of registry operations in RegistrySpec.
MaxOps == 2

\* ------------------------------------------------------- program constants
\* pullWithRetry(client, p, image, 3)
PullTries == 3

\* ------------------------------------------------------------ the universe
AllAddrs == <<"n1", "n2", "n3", "n4", "n5", "n6">>
AllNames == <<"bs", "c2", "c3", "c4", "c5", "c6">>
PoolA == "p1"
PoolB == "p2"

ImgFloat == <<"x", "/", "y">>
ImgLatest == <<"x", "/", "y", ":", "latest">>
ImgTagged == <<"x", "/", "y", ":", "v1">>
Digest1 == <<"sha256", ":", "d1">>
NoImage == << >>

\* cluster.Node: Address and Metadata["pool"].
NodeAt(i) == [Address |-> AllAddrs[i], pool |-> IF i % 2 = 1 THEN PoolA ELSE PoolB]

\* The image declared by the default entry of the j-th configuration.
DeclaredImage(j) ==
  CASE j % 3 = 1 -> ImgFloat
    [] j % 3 = 2 -> ImgTagged
    [] OTHER -> ImgLatest

Scopes == {"", PoolA, PoolB}
NoEntry == [absent |-> TRUE]
NoErr == [type |-> "nil"]

\* NodeContainerConfig (the fields this model follows; Env stands for the
\* rest of docker.Config and docker.HostConfig).
NodeContainerConfig(name, pinned, image, env) ==
  [Name |-> name, PinnedImage |-> pinned, Image |-> image, Env |-> env]

\* ------------------------------------------------------------ pure helpers
RECURSIVE IndexOf(_, _, _)
\* first index >= i of token sep in s, 0 when there is none
IndexOf(s, sep, i) ==
  IF i > Len(s) THEN 0
  ELSE IF s[i] = sep THEN i ELSE IndexOf(s, sep, i + 1)

RECURSIVE SplitN(_, _, _)
\* strings.SplitN(s, sep, n) for n > 0: at most n parts, the last one the
\* unsplit remainder.
SplitN(s, sep, n) ==
  LET i == IndexOf(s, sep, 1) IN
    IF n <= 1 \/ i = 0 THEN <<s>>
    ELSE <<SubSeq(s, 1, i - 1)>> \o SplitN(SubSeq(s, i + 1, Len(s)), sep, n - 1)

\* A shouldPinImage that pins untagged references only.
shouldPinImage_UntaggedOnly(image) ==
  LET parts == SplitN(image, "/", 3)
      lastPart == parts[Len(parts)]
      versionParts == SplitN(lastPart, ":", 2)
  IN Len(versionParts) < 2

shouldPinImage(image) ==
  LET parts == SplitN(image, "/", 3)
      lastPart == parts[Len(parts)]
      versionParts == SplitN(lastPart, ":", 2)
  IN Len(versionParts) < 2 \/ versionParts[2] = <<"latest">>

\* fmt.Sprintf("%s@%s", image, digest)
SprintfAt(image, digest) == image \o <<"@">> \o digest

\* An image() that ignores PinnedImage.
image_DeclaredOnly(c) == c.Image

\* NodeContainerConfig.image
image(c) == IF c.PinnedImage # NoImage THEN c.PinnedImage ELSE c.Image

RECURSIVE PullLoop(_, _, _, _)
\* The loop of pullWithRetry: k is the number of PullImage calls made so
\* far, err the error of the last one (0 is nil; the error of the k-th call
\* is k).  script[k] says whether the k-th PullImage call succeeds.
PullLoop(script, maxTries, k, err) ==
  IF maxTries > 0
  THEN IF script[k + 1]
       THEN [ok |-> TRUE, calls |-> k + 1, err |-> 0]
       ELSE PullLoop(script, maxTries - 1, k + 1, k + 1)
  ELSE [ok |-> FALSE, calls |-> k, err |-> err]

\* A pullWithRetry that keeps the error of the first failed attempt.
pullWithRetry_FirstErr(script, maxTries) ==
  LET r == PullLoop(script, maxTries, 0, 0)
  IN [r EXCEPT !.err = IF r.ok THEN 0 ELSE 1]

\* pullWithRetry(client, p, image, maxTries) against an engine whose k-th
\* PullImage call answers script[k] (Len(script) >= maxTries).
pullWithRetry(script, maxTries) == PullLoop(script, maxTries, 0, 0)

\* ------------------------------------------------- the configuration store
\* scopedconfig (not part of the sources at hand): one document per
\* (configuration name, scope); scope "" holds the defaults.
StoreErr(op) == [type |-> "store", op |-> op]
NotFound == [type |-> "notfound"]

\* scopedconfig.FindAllScopedConfigNames: the names that have an entry, in
\* the order of AllNames.
RECURSIVE NamesFrom(_, _)
NamesFrom(st, j) ==
  IF j > Len(AllNames) THEN << >>
  ELSE (IF \E sc \in Scopes : st[<<AllNames[j], sc>>] # NoEntry
        THEN <<AllNames[j]>> ELSE << >>) \o NamesFrom(st, j + 1)

FindAllScopedConfigNames(st) == NamesFrom(st, 1)

\* A pool entry's non-empty fields override the defaults.
MergeEntry(d, o) ==
  IF o = NoEntry THEN d
  ELSE IF d = NoEntry THEN o
  ELSE [Name |-> IF o.Name # "" THEN o.Name ELSE d.Name,
        PinnedImage |-> IF o.PinnedImage # NoImage THEN o.PinnedImage ELSE d.PinnedImage,
        Image |-> IF o.Image # NoImage THEN o.Image ELSE d.Image,
        Env |-> o.Env \o d.Env]

\* ScopedConfig.Load(pool, &result): the pool-resolved read.
StoreLoad(st, pool, name) ==
  LET d == st[<<name, "">>]
      o == IF pool = "" THEN NoEntry ELSE st[<<name, pool>>]
  IN IF d = NoEntry /\ o = NoEntry
     THEN [err |-> NotFound, cfg |-> NoEntry]
     ELSE [err |-> NoErr, cfg |-> MergeEntry(d, o)]

\* ScopedConfig.SetField(pool, "PinnedImage", value): the single-field update.
StoreSetPinned(st, pool, name, value) ==
  IF st[<<name, pool>>] = NoEntry THEN st
  ELSE [st EXCEPT ![<<name, pool>>].PinnedImage = value]

\* ScopedConfig.Save(pool, c): create; fails when the scope has an entry.
StoreSave(st, pool, c) ==
  IF st[<<c.Name, pool>>] # NoEntry
  THEN [err |-> StoreErr("Save"), st |-> st]
  ELSE [err |-> NoErr, st |-> [st EXCEPT ![<<c.Name, pool>>] = c]]

\* ScopedConfig.SaveMerge(pool, c): create or merge into the stored entry.
StoreSaveMerge(st, pool, c) ==
  [err |-> NoErr,
   st |-> [st EXCEPT ![<<c.Name, pool>>] = MergeEntry(st[<<c.Name, pool>>], c)]]

\* fix.GetImageDigest(output): the digest the pull output reports, "" when
\* it reports none.
PullOutput(withDigest) ==
  IF withDigest THEN <<"Digest">> \o Digest1 ELSE <<"Status">>

GetImageDigest(output) ==
  IF output # << >> /\ Head(output) = "Digest" THEN Tail(output) ELSE << >>

\* ------------------------------------------------------ the container engine
\* The docker engine of one node, for one container name: "absent",
\* "created" or "running".  ok = FALSE makes the call fail with an error
\* other than the two sentinel conditions.
Call(op, res, arg) == [op |-> op, res |-> res, arg |-> arg]

EngineCreate(st, ok) ==
  IF ~ok THEN [res |-> "err", st |-> st]
  ELSE IF st # "absent" THEN [res |-> "exists", st |-> st]
  ELSE [res |-> "ok", st |-> "created"]

EngineRemove(st, ok) ==
  IF ~ok \/ st = "absent" THEN [res |-> "err", st |-> st]
  ELSE [res |-> "ok", st |-> "absent"]

EngineStart(st, ok) ==
  IF ~ok \/ st = "absent" THEN [res |-> "err", st |-> st]
  ELSE IF st = "running" THEN [res |-> "running", st |-> st]
  ELSE [res |-> "ok", st |-> "running"]

\* -------------------------------------------------- one unit: create/start
EngineErr(op) == [type |-> "engine", op |-> op]
PullErr(n) == [type |-> "pull", attempt |-> n]
NoWrite == [written |-> FALSE]
Write(value, ok) == [written |-> TRUE, value |-> value, applied |-> ok]

\* What the collaborators answer during one create: o.client, o.setfield,
\* o.create1, o.remove, o.create2, o.start say whether that call is free of
\* faults, o.pull[k] whether the k-th PullImage call succeeds, o.digest
\* whether the pull output reports a digest.
Faulty(kinds, k) == IF k \in kinds THEN BOOLEAN ELSE {TRUE}

\* A fault at a call that an earlier failure keeps from being made changes
\* nothing, so only the answers to the calls that can be reached vary:
\* after the first successful pull no further pull is made, and after a
\* failed call of the sequence none of the later ones is.
Reached(o) ==
  /\ \A k \in 1..PullTries - 1 : o.pull[k] => o.pull[k + 1]
  /\ (~o.client) => \A k \in 1..PullTries : o.pull[k]
  /\ (~o.client \/ ~o.pull[PullTries]) => (o.digest /\ o.setfield /\ o.create1)
  /\ (~o.setfield \/ ~o.create1) => (o.remove /\ o.create2)
  /\ (~o.setfield) => o.create1
  /\ (~o.remove) => o.create2
  /\ (~o.setfield \/ ~o.create1 \/ ~o.remove \/ ~o.create2) => o.start

Oracles(kinds) ==
  {o \in [client : Faulty(kinds, "client"),
          pull : [1..PullTries -> Faulty(kinds, "pull")],
          digest : Faulty(kinds, "digest"),
          setfield : Faulty(kinds, "setfield"),
          create1 : Faulty(kinds, "create"),
          remove : Faulty(kinds, "remove"),
          create2 : Faulty(kinds, "create"),
          start : Faulty(kinds, "start")] : Reached(o)}

PullCalls(r, img) ==
  [k \in 1..r.calls |->
     Call("PullImage", IF r.ok /\ k = r.calls THEN "ok" ELSE "err", img)]

\* NodeContainerConfig.pullImage: the image pulled, the error, the
\* configuration as the method leaves it, the calls made and the store
\* write issued.
pullImage(c, o) ==
  LET img == image(c)
      r == pullWithRetry(o.pull, PullTries)
      output == PullOutput(o.digest)
      digest == GetImageDigest(output)
      pinnedImage == IF digest # << >> THEN SprintfAt(img, digest) ELSE NoImage
  IN IF ~r.ok
     THEN [image |-> NoImage, err |-> PullErr(r.err), c |-> c,
           trace |-> PullCalls(r, img), write |-> NoWrite]
     ELSE IF shouldPinImage(img) /\ pinnedImage # img
     THEN [image |-> img,
           err |-> IF o.setfield THEN NoErr ELSE StoreErr("SetField"),
           c |-> [c EXCEPT !.PinnedImage = pinnedImage],
           trace |-> PullCalls(r, img) \o
                     <<Call("SetField", IF o.setfield THEN "ok" ELSE "err", pinnedImage)>>,
           write |-> Write(pinnedImage, o.setfield)]
     ELSE [image |-> img, err |-> NoErr, c |-> c,
           trace |-> PullCalls(r, img), write |-> NoWrite]

\* A create that removes an existing container whatever relaunch says.
Relaunches_Always(relaunch, res) == res = "exists"

\* relaunch && err == docker.ErrContainerAlreadyExists
Relaunches(relaunch, res) == relaunch /\ res = "exists"

\* A create that goes on to start after any create error.
CreateFatal_Never(res) == FALSE

\* err != nil && err != docker.ErrContainerAlreadyExists
CreateFatal(res) == res = "err"

\* A create that returns nil whatever StartContainer answered.
StartResult_Swallowed(res) == NoErr

\* _, ok := err.(*docker.ContainerAlreadyRunning); !ok => return err
StartResult(res) == IF res = "err" THEN EngineErr("StartContainer") ELSE NoErr

\* NodeContainerConfig.create on a node whose engine holds the container in
\* state st: the error returned, the engine and store calls made, the
\* container's state afterwards and the store write issued.
create(c, dockerEndpoint, relaunch, st, o) ==
  LET p == pullImage(c, o)
      \* c.Config.Image and c.Config.Env as handed to CreateContainer
      opts == [p.c EXCEPT !.Image = p.image,
                          !.Env = <<"DOCKER_ENDPOINT=" \o dockerEndpoint>> \o @]
      cr1 == EngineCreate(st, o.create1)
      c1 == Call("CreateContainer", cr1.res, opts.Image)
      again == Relaunches(relaunch, cr1.res)
      rm == EngineRemove(cr1.st, o.remove)
      cr2 == EngineCreate(rm.st, o.create2)
      last == IF again THEN cr2 ELSE cr1
      upto == IF again
              THEN <<c1, Call("RemoveContainer", rm.res, NoImage),
                     Call("CreateContainer", cr2.res, opts.Image)>>
              ELSE <<c1>>
      sc == EngineStart(last.st, o.start)
  IN IF ~o.client
     THEN [err |-> EngineErr("NewClient"), trace |-> << >>, st |-> st, write |-> NoWrite]
     ELSE IF p.err # NoErr
     THEN [err |-> p.err, trace |-> p.trace, st |-> st, write |-> p.write]
     ELSE IF again /\ rm.res = "err"
     THEN [err |-> EngineErr("RemoveContainer"),
           trace |-> p.trace \o <<c1, Call("RemoveContainer", rm.res, NoImage)>>,
           st |-> rm.st, write |-> p.write]
     ELSE IF CreateFatal(last.res)
     THEN [err |-> EngineErr("CreateContainer"), trace |-> p.trace \o upto,
           st |-> last.st, write |-> p.write]
     ELSE [err |-> StartResult(sc.res),
           trace |-> p.trace \o upto \o <<Call("StartContainer", sc.res, NoImage)>>,
           st |-> sc.st, write |-> p.write]

\* ------------------------------------------------------------------- state
VARIABLES
  store,      \* the configuration store: <<name, scope>> -> entry or NoEntry
  cont,       \* the engines: <<node address, container name>> -> state
  cluster,    \* p.Cluster().UnfilteredNodes()
  env,        \* the kinds of fault the collaborators may show
  runsLeft,   \* recreation runs the caller may still start
  mainpc,     \* ensureContainersStarted: "idle", "names", "nodes", "loop",
              \* "wait", "collect", "returned"
  relaunch,   \* its relaunch argument
  nodes,      \* its nodes argument, then the node list it works on
  confNames,  \* the enumerated configuration names
  loopI,      \* the next i of "for i := range nodes"
  outer,      \* the per-node goroutines: i -> [pc, j]
  wg,         \* the WaitGroup counter
  errChan,    \* the buffered channel's content
  closed,     \* close(errChan) happened
  upc,        \* the recreateContainer goroutines: <<i, j>> -> position
  uarg,       \* their arguments (node, confName)
  ucfg,       \* their loaded containerConfig
  uerr,       \* the error each one reports (NoErr: none)
  trace,      \* the engine and store calls each one made, in order
  result,     \* the error the run returned
  prev,       \* how the previous run ended (history)
  lastOp,     \* the last AddNewContainer / UpdateContainer call and its outcome
  opsDone,    \* the number of such calls made
  pullT,      \* one call of pullWithRetry: its input and its result
  pinT,       \* one call of shouldPinImage: its input and its result
  hook        \* the cluster hook call in progress or returned

vars == <<store, cont, cluster, env, runsLeft, mainpc, relaunch, nodes,
          confNames, loopI, outer, wg, errChan, closed, upc, uarg, ucfg,
          uerr, trace, result, prev, lastOp, opsDone, pullT, pinT, hook>>

world == <<cluster, env, lastOp, opsDone, pullT, pinT, hook>>
runVars == <<relaunch, nodes, confNames, loopI, outer, wg, errChan, closed,
             upc, uarg, ucfg, uerr, trace, result>>

NoRun == [result |-> [type |-> "none"]]
NoOp == [op |-> "none"]
NoPull == [called |-> FALSE]
NoPin == [called |-> FALSE]
NoHook == [pc |-> "none"]
NoArg == [node |-> NodeAt(1), confName |-> ""]

\* make(chan error, len(nodes))
ErrChanCap(ns) == Len(ns)

\* The store after the first m configurations were added: a default entry
\* each, the j-th declaring image DeclaredImage(j + s), and an override of
\* the first one's environment for pool PoolB.
StoreOf(m, s) ==
  [k \in {<<AllNames[j], sc>> : j \in 1..Len(AllNames), sc \in Scopes} |->
     IF \E j \in 1..m : k = <<AllNames[j], "">>
     THEN NodeContainerConfig(k[1], NoImage,
                              DeclaredImage(s + CHOOSE j \in 1..m : AllNames[j] = k[1]),
                              <<"A=1">>)
     ELSE IF k = <<AllNames[1], PoolB>>
     THEN NodeContainerConfig(k[1], NoImage, NoImage, <<"B=2">>)
     ELSE NoEntry]

Idle ==
  /\ mainpc = "idle" /\ relaunch = FALSE /\ nodes = << >> /\ confNames = << >>
  /\ loopI = 1 /\ outer = << >> /\ wg = 0 /\ errChan = << >> /\ closed = FALSE
  /\ upc = << >> /\ uarg = << >> /\ ucfg = << >> /\ uerr = << >> /\ trace = << >>
  /\ result = NoErr /\ prev = NoRun
  /\ lastOp = NoOp /\ opsDone = 0
  /\ hook = NoHook

\* A cluster of n nodes and m configurations, every container in state c0.
World(n, m, s, c0, kinds, runs) ==
  /\ cluster = [i \in 1..n |-> NodeAt(i)]
  /\ store = StoreOf(m, s)
  /\ cont = [k \in {<<AllAddrs[i], AllNames[j]>> : i \in 1..n, j \in 1..m} |-> c0]
  /\ env = kinds
  /\ runsLeft = runs
  /\ Idle

OrchFaults == {"names", "nodes", "load", "start"}
AllFaults == {"names", "nodes", "load", "client", "pull", "digest", "setfield",
              "create", "remove", "start"}

\* Up to MaxUnits units on fresh nodes; a unit fails by its configuration
\* load or by its start call.
Init ==
  /\ pullT = NoPull /\ pinT = NoPin
  /\ \E n \in 1..MaxUnits, m \in 1..MaxUnits :
       n * m <= MaxUnits /\ World(n, m, 0, "absent", OrchFaults, 1)

\* Up to MaxDetail units, any declared image (floating, tagged, "latest"),
\* any prior state of the containers, every call of a unit may fail.
UnitInit ==
  /\ pullT = NoPull /\ pinT = NoPin
  /\ \E n \in 1..MaxDetail, m \in 1..MaxDetail, s \in 0..2,
        c0 \in {"absent", "created", "running"} :
       n * m <= MaxDetail /\ World(n, m, s, c0, AllFaults, 1)

\* Up to MaxRuns runs in a row; pulls, configuration loads and the engine
\* never fail.
RepeatFaults == {"digest", "setfield"}

RepeatInit ==
  /\ pullT = NoPull /\ pinT = NoPin
  /\ \E n \in 1..MaxDetail, m \in 1..MaxDetail, s \in 0..2,
        c0 \in {"absent", "created", "running"} :
       n * m <= MaxDetail /\ World(n, m, s, c0, RepeatFaults, MaxRuns)

\* One floating-tag configuration on two to MaxDetail + 1 nodes, whose units
\* run concurrently; digest extraction and the pin update may fail.
ConcurrentInit ==
  /\ pullT = NoPull /\ pinT = NoPin
  /\ \E n \in 2..MaxDetail + 1, c0 \in {"absent", "running"} :
       World(n, 1, 0, c0, RepeatFaults, 1)

\* The registry alone: no run, an empty store or one configuration.
RegistryInit ==
  /\ pullT = NoPull /\ pinT = NoPin
  /\ \E m \in 0..1 : World(1, m, 0, "absent", {}, 0)

\* pullWithRetry alone: any maxTries and any answers of the engine.
PullInit ==
  /\ World(1, 1, 0, "absent", {}, 0)
  /\ pinT = NoPin
  /\ \E script \in [1..MaxTries -> BOOLEAN], maxTries \in 1..MaxTries :
       pullT = [called |-> FALSE, script |-> script, maxTries |-> maxTries]

\* ----------------------------------------------------------------- actions
\* The caller starts a run: RecreateContainers (relaunch) or the cluster
\* hook's ensureContainersStarted(..., false, node), with an explicit node
\* or with none.
StartRun ==
  /\ mainpc \in {"idle", "returned"}
  /\ runsLeft > 0
  /\ \E rl \in BOOLEAN, ns \in {<< >>, <<cluster[1]>>} :
       /\ relaunch' = rl
       /\ nodes' = ns
  /\ runsLeft' = runsLeft - 1
  /\ mainpc' = "names"
  /\ prev' = IF mainpc = "returned"
             THEN [result |-> result, cont |-> cont, relaunch |-> relaunch,
                   nodes |-> nodes]
             ELSE NoRun
  /\ confNames' = << >> /\ loopI' = 1 /\ outer' = << >> /\ wg' = 0
  /\ errChan' = << >> /\ closed' = FALSE
  /\ upc' = << >> /\ uarg' = << >> /\ ucfg' = << >> /\ uerr' = << >>
  /\ trace' = << >> /\ result' = NoErr
  /\ UNCHANGED <<store, cont, world>>

\* errChan, wg and the goroutines' slots, once the node list ns is known.
Fanout(ns, names) ==
  LET us == (1..Len(ns)) \X (1..Len(names)) IN
  /\ nodes' = ns
  /\ outer' = [i \in 1..Len(ns) |-> [pc |-> "new", j |-> 0]]
  /\ upc' = [u \in us |-> "new"]
  /\ uarg' = [u \in us |-> NoArg]
  /\ ucfg' = [u \in us |-> NoEntry]
  /\ uerr' = [u \in us |-> NoErr]
  /\ trace' = [u \in us |-> << >>]
  /\ errChan' = << >> /\ closed' = FALSE /\ wg' = 0 /\ loopI' = 1
  /\ mainpc' = IF Len(ns) = 0 THEN "wait" ELSE "loop"

\* confNames, err := scopedconfig.FindAllScopedConfigNames(...)
FindNames ==
  /\ mainpc = "names"
  /\ \E ok \in Faulty(env, "names") :
       IF ~ok
       THEN /\ result' = StoreErr("FindAllScopedConfigNames")
            /\ mainpc' = "returned"
            /\ UNCHANGED <<nodes, confNames, loopI, outer, wg, errChan, closed,
                           upc, uarg, ucfg, uerr, trace>>
       ELSE /\ confNames' = FindAllScopedConfigNames(store)
            /\ IF Len(nodes) = 0
               THEN /\ mainpc' = "nodes"
                    /\ UNCHANGED <<nodes, loopI, outer, wg, errChan, closed, upc,
                                   uarg, ucfg, uerr, trace>>
               ELSE Fanout(nodes, confNames')
            /\ UNCHANGED result
  /\ UNCHANGED <<store, cont, world, runsLeft, relaunch, prev>>

\* nodes, err = p.Cluster().UnfilteredNodes()
ListNodes ==
  /\ mainpc = "nodes"
  /\ \E ok \in Faulty(env, "nodes") :
       IF ~ok
       THEN /\ result' = [type |-> "cluster", op |-> "UnfilteredNodes"]
            /\ mainpc' = "returned"
            /\ UNCHANGED <<nodes, loopI, outer, wg, errChan, closed, upc, uarg,
                           ucfg, uerr, trace>>
       ELSE /\ Fanout(cluster, confNames)
            /\ UNCHANGED result
  /\ UNCHANGED <<store, cont, world, runsLeft, relaunch, confNames, prev>>

\* for i := range nodes { wg.Add(1); go func(node){...}(&nodes[i]) }
SpawnNode ==
  /\ mainpc = "loop"
  /\ wg' = wg + 1
  /\ outer' = [outer EXCEPT ![loopI] = [pc |-> "run", j |-> 0]]
  /\ loopI' = loopI + 1
  /\ mainpc' = IF loopI = Len(nodes) THEN "wait" ELSE "loop"
  /\ UNCHANGED <<store, cont, world, runsLeft, relaunch, nodes, confNames,
                 errChan, closed, upc, uarg, ucfg, uerr, trace, result, prev>>

\* A goroutine that reads the loop's node after the loop has moved on.
SpawnArgs_LastNode(ns, names, i, j) == [node |-> ns[Len(ns)], confName |-> names[j]]

\* The arguments of "go recreateContainer(node, confNames[j])" in the
\* goroutine started for nodes[i].
SpawnArgs(ns, names, i, j) == [node |-> ns[i], confName |-> names[j]]

\* A per-node goroutine that starts its units without registering them.
AddUnit_Forgotten(n) == n

\* wg.Add(1) before "go recreateContainer(...)"
AddUnit(n) == n + 1

\* for j := range confNames { wg.Add(1); go recreateContainer(...) }
SpawnUnit(i) ==
  /\ outer[i].pc = "run"
  /\ outer[i].j < Len(confNames)
  /\ LET j == outer[i].j + 1 IN
       /\ wg' = AddUnit(wg)
       /\ upc' = [upc EXCEPT ![<<i, j>>] = "load"]
       /\ uarg' = [uarg EXCEPT ![<<i, j>>] = SpawnArgs(nodes, confNames, i, j)]
       /\ outer' = [outer EXCEPT ![i].j = j]
  /\ UNCHANGED <<store, cont, world, runsLeft, mainpc, relaunch, nodes,
                 confNames, loopI, errChan, closed, ucfg, uerr, trace, result, prev>>

\* The per-node goroutine ends: its deferred wg.Done().
OuterDone(i) ==
  /\ outer[i].pc = "run"
  /\ outer[i].j = Len(confNames)
  /\ outer' = [outer EXCEPT ![i].pc = "done"]
  /\ wg' = wg - 1
  /\ UNCHANGED <<store, cont, world, runsLeft, mainpc, relaunch, nodes,
                 confNames, loopI, errChan, closed, upc, uarg, ucfg, uerr, trace,
                 result, prev>>

\* recreateContainer: containerConfig, confErr := LoadNodeContainer(pool, confName)
Load(u) ==
  /\ upc[u] = "load"
  /\ \E ok \in Faulty(env, "load") :
       LET r == StoreLoad(store, uarg[u].node.pool, uarg[u].confName)
           confErr == IF ok THEN r.err ELSE StoreErr("Load")
       IN IF confErr # NoErr
          THEN /\ uerr' = [uerr EXCEPT ![u] = confErr]
               /\ upc' = [upc EXCEPT ![u] = "send"]
               /\ UNCHANGED ucfg
          ELSE /\ ucfg' = [ucfg EXCEPT ![u] = r.cfg]
               /\ upc' = [upc EXCEPT ![u] = "create"]
               /\ UNCHANGED uerr
  /\ UNCHANGED <<store, cont, world, runsLeft, mainpc, relaunch, nodes,
                 confNames, loopI, outer, wg, errChan, closed, uarg, trace,
                 result, prev>>

\* fmt.Sprintf("[node containers] failed to create container in %s [%s]: %s", ...)
CreateMsg(node, pool, confErr) ==
  [type |-> "create", addr |-> node.Address, pool |-> pool, cause |-> confErr]

\* A pin update addressed to a pool's entry.
PinScope_Override == PoolB

\* conf.SetField("", "PinnedImage", pinnedImage): the scope written.
PinScope == ""

\* recreateContainer: confErr = containerConfig.create(node.Address, pool, p,
\* relaunch); on success the goroutine ends (deferred wg.Done()).
Create(u) ==
  /\ upc[u] = "create"
  /\ \E o \in Oracles(env) :
       LET node == uarg[u].node
           pool == node.pool
           key == <<node.Address, ucfg[u].Name>>
           r == create(ucfg[u], node.Address, relaunch, cont[key], o)
       IN /\ cont' = [cont EXCEPT ![key] = r.st]
          /\ store' = IF r.write.written /\ r.write.applied
                       THEN StoreSetPinned(store, PinScope, ucfg[u].Name, r.write.value)
                       ELSE store
          /\ trace' = [trace EXCEPT ![u] = r.trace]
          /\ IF r.err # NoErr
             THEN /\ uerr' = [uerr EXCEPT ![u] = CreateMsg(node, pool, r.err)]
                  /\ upc' = [upc EXCEPT ![u] = "send"]
                  /\ UNCHANGED wg
             ELSE /\ upc' = [upc EXCEPT ![u] = "done"]
                  /\ wg' = wg - 1
                  /\ UNCHANGED uerr
  /\ ucfg' = [ucfg EXCEPT ![u] = NoEntry]
  /\ UNCHANGED <<world, runsLeft, mainpc, relaunch, nodes, confNames, loopI,
                 outer, errChan, closed, uarg, result, prev>>

\* errChan <- err, which blocks while the buffer is full; then the goroutine
\* ends (deferred wg.Done()).  A send on a closed channel panics.
Send(u) ==
  /\ upc[u] = "send"
  /\ IF closed
     THEN /\ upc' = [upc EXCEPT ![u] = "panic"]
          /\ UNCHANGED <<errChan, wg>>
     ELSE /\ Len(errChan) < ErrChanCap(nodes)
          /\ errChan' = Append(errChan, [src |-> u, err |-> uerr[u]])
          /\ upc' = [upc EXCEPT ![u] = "done"]
          /\ wg' = wg - 1
  /\ UNCHANGED <<store, cont, world, runsLeft, mainpc, relaunch, nodes,
                 confNames, loopI, outer, closed, uarg, ucfg, uerr, trace,
                 result, prev>>

\* wg.Wait() returns.
Wait ==
  /\ mainpc = "wait"
  /\ wg = 0
  /\ mainpc' = "collect"
  /\ UNCHANGED <<store, cont, world, runsLeft, relaunch, nodes, confNames,
                 loopI, outer, wg, errChan, closed, upc, uarg, ucfg, uerr,
                 trace, result, prev>>

\* A join that loses the first collected error.
MultipleErrors_DropsFirst(allErrors) == [type |-> "multiple", errs |-> Tail(allErrors)]

\* fmt.Errorf("multiple errors: %s", strings.Join(allErrors, ", "))
MultipleErrors(allErrors) == [type |-> "multiple", errs |-> allErrors]

\* A run that returns the first collected error alone.
Collected_FirstOnly(allErrors) ==
  IF Len(allErrors) = 0 THEN NoErr ELSE allErrors[1].err

\* The value ensureContainersStarted returns for the drained errors.
Collected(allErrors) ==
  IF Len(allErrors) = 0 THEN NoErr ELSE MultipleErrors(allErrors)

\* close(errChan); for err = range errChan {...}; return
Collect ==
  /\ mainpc = "collect"
  /\ closed' = TRUE
  /\ errChan' = << >>
  /\ result' = Collected(errChan)
  /\ mainpc' = "returned"
  /\ UNCHANGED <<store, cont, world, runsLeft, relaunch, nodes, confNames,
                 loopI, outer, wg, upc, uarg, ucfg, uerr, trace, prev>>

\* ---------------------------------------------------------- the registry
ValidationErr(message) == [type |-> "validation", message |-> message]

\* A validate that checks the name only.
validate_NameOnly(c, pool) ==
  IF c.Name = ""
  THEN ValidationErr("node container config name cannot be empty")
  ELSE NoErr

\* NodeContainerConfig.validate
validate(c, pool) ==
  IF c.Name = ""
  THEN ValidationErr("node container config name cannot be empty")
  ELSE IF c.Image # NoImage /\ pool # ""
  THEN ValidationErr("it's not possible to override image in pool")
  ELSE NoErr

Done(op, pool, c, err, calls) ==
  [op |-> op, pool |-> pool, c |-> c, err |-> err, storeCalls |-> calls,
   before |-> store]

AddNewContainer(pool, c) ==
  /\ mainpc = "idle" /\ opsDone < MaxOps
  /\ LET err == validate(c, pool)
         r == StoreSave(store, pool, c)
     IN IF err # NoErr
        THEN /\ lastOp' = Done("AddNewContainer", pool, c, err, 0)
             /\ UNCHANGED store
        ELSE /\ lastOp' = Done("AddNewContainer", pool, c, r.err, 1)
             /\ store' = r.st
  /\ opsDone' = opsDone + 1
  /\ UNCHANGED <<cont, cluster, env, pullT, pinT, hook, runsLeft, mainpc,
                 runVars, prev>>

UpdateContainer(pool, c) ==
  /\ mainpc = "idle" /\ opsDone < MaxOps
  /\ LET err == validate(c, pool)
         r == StoreSaveMerge(store, pool, c)
     IN IF err # NoErr
        THEN /\ lastOp' = Done("UpdateContainer", pool, c, err, 0)
             /\ UNCHANGED store
        ELSE /\ lastOp' = Done("UpdateContainer", pool, c, r.err, 1)
             /\ store' = r.st
  /\ opsDone' = opsDone + 1
  /\ UNCHANGED <<cont, cluster, env, pullT, pinT, hook, runsLeft, mainpc,
                 runVars, prev>>

RegPools == {"", PoolA}
RegConfigs ==
  {NodeContainerConfig(n, NoImage, im, <<"A=1">>) :
     n \in {"", AllNames[1], AllNames[2]}, im \in {NoImage, ImgFloat}}

RegistryNext ==
  \E pool \in RegPools, c \in RegConfigs :
    AddNewContainer(pool, c) \/ UpdateContainer(pool, c)

\* ------------------------------------------------------ pullWithRetry alone
PullCall ==
  /\ ~pullT.called
  /\ pullT # NoPull
  /\ pullT' = [called |-> TRUE, script |-> pullT.script,
               maxTries |-> pullT.maxTries,
               out |-> pullWithRetry(pullT.script, pullT.maxTries)]
  /\ UNCHANGED <<store, cont, cluster, env, lastOp, opsDone, pinT, hook,
                 runsLeft, mainpc, runVars, prev>>

PullNext == PullCall

\* ----------------------------------------------------- shouldPinImage alone
\* Image references: an optional registry host (with or without port), a
\* repository path of one to three components, an optional tag and an
\* optional digest suffix.
RefHosts == {<< >>, <<"h", "/">>, <<"h", ":", "5000", "/">>}
RefPaths == {<<"y">>, <<"x", "/", "y">>, <<"a", "/", "b", "/", "y">>}
RefTags == {<< >>, <<":", "v1">>, <<":", "latest">>, <<":", "v2">>}
RefDigests == {<< >>, <<"@">> \o Digest1}
Refs == {h \o p \o t \o d : h \in RefHosts, p \in RefPaths, t \in RefTags,
                            d \in RefDigests}

PinInit ==
  /\ World(1, 1, 0, "absent", {}, 0)
  /\ pullT = NoPull
  /\ \E ref \in Refs : pinT = [called |-> FALSE, image |-> ref]

PinCall ==
  /\ ~pinT.called
  /\ pinT # NoPin
  /\ pinT' = [called |-> TRUE, image |-> pinT.image,
              out |-> shouldPinImage(pinT.image)]
  /\ UNCHANGED <<store, cont, cluster, env, lastOp, opsDone, pullT, hook,
                 runsLeft, mainpc, runVars, prev>>

PinNext == PinCall

\* --------------------------------------------------------- the cluster hook
\* InitializeBS (bs.go, not part of the sources at hand): materializes the
\* baseline configuration, the default entry of "bs", when it is missing.
BsDefaultName == AllNames[1]

InitializeBS(st) ==
  IF st[<<BsDefaultName, "">>] # NoEntry THEN st
  ELSE [st EXCEPT ![<<BsDefaultName, "">>] =
          NodeContainerConfig(BsDefaultName, NoImage, ImgTagged, << >>)]

\* fmt.Errorf("unable to initialize bs node container: %s", err) and
\* fmt.Errorf("unable to start node containers: %s", err)
HookErr(stage, err) == [type |-> "hook", stage |-> stage, cause |-> err]

\* A hook that recreates with relaunch.
HookRelaunch_Destructive == TRUE

\* ensureContainersStarted(h.Provisioner, nil, false, *node): its relaunch
\* and nodes arguments.
HookRelaunch == FALSE
HookNodes(node) == <<node>>

\* ClusterHook.RunClusterHook up to the call of ensureContainersStarted.
RunClusterHook(node) ==
  /\ mainpc \in {"idle", "returned"}
  /\ hook.pc # "running"
  /\ runsLeft > 0
  /\ runsLeft' = runsLeft - 1
  /\ confNames' = << >> /\ loopI' = 1 /\ outer' = << >> /\ wg' = 0
  /\ errChan' = << >> /\ closed' = FALSE
  /\ upc' = << >> /\ uarg' = << >> /\ ucfg' = << >> /\ uerr' = << >>
  /\ trace' = << >> /\ result' = NoErr /\ prev' = NoRun
  /\ \E ok \in Faulty(env, "initbs") :
       IF ~ok
       THEN /\ hook' = [pc |-> "returned", node |-> node, ran |-> FALSE,
                        cont0 |-> cont,
                        err |-> HookErr("unable to initialize bs node container",
                                        StoreErr("InitializeBS"))]
            /\ mainpc' = "idle"
            /\ relaunch' = FALSE /\ nodes' = << >>
            /\ UNCHANGED store
       ELSE /\ store' = InitializeBS(store)
            /\ hook' = [pc |-> "running", node |-> node, ran |-> TRUE,
                        cont0 |-> cont, err |-> NoErr]
            /\ relaunch' = HookRelaunch
            /\ nodes' = HookNodes(node)
            /\ mainpc' = "names"
  /\ UNCHANGED <<cont, cluster, env, lastOp, opsDone, pullT, pinT>>

\* ensureContainersStarted returned to the hook, which wraps its error.
HookReturn ==
  /\ hook.pc = "running"
  /\ mainpc = "returned"
  /\ hook' = [hook EXCEPT !.pc = "returned",
                          !.err = IF result = NoErr THEN NoErr
                                  ELSE HookErr("unable to start node containers", result)]
  /\ UNCHANGED <<store, cont, cluster, env, lastOp, opsDone, pullT, pinT,
                 runsLeft, mainpc, runVars, prev>>

HookFaults == {"initbs", "names", "load", "start"}

\* A topology event on any node of a cluster of up to MaxDetail + 1 nodes,
\* with up to MaxDetail + 1 configurations (none: the baseline is missing)
\* and any prior state of the containers.
HookInit ==
  /\ pullT = NoPull /\ pinT = NoPin
  /\ Idle
  /\ env = HookFaults
  /\ runsLeft = 1
  /\ \E n \in 1..MaxDetail + 1, m \in 0..MaxDetail + 1,
        c0 \in {"absent", "created", "running"} :
       /\ cluster = [i \in 1..n |-> NodeAt(i)]
       /\ store = StoreOf(m, 0)
       /\ cont = [k \in {<<AllAddrs[i], AllNames[j]>> :
                           i \in 1..n, j \in 1..(IF m = 0 THEN 1 ELSE m)} |-> c0]

HookNext ==
  \/ \E i \in DOMAIN cluster : RunClusterHook(cluster[i])
  \/ FindNames
  \/ SpawnNode
  \/ \E i \in DOMAIN outer : SpawnUnit(i) \/ OuterDone(i)
  \/ \E u \in DOMAIN upc : Load(u) \/ Create(u) \/ Send(u)
  \/ Wait
  \/ Collect
  \/ HookReturn

HookSpec == HookInit /\ [][HookNext]_vars

\* ---------------------------------------------------------- specifications
Next ==
  \/ StartRun
  \/ FindNames
  \/ ListNodes
  \/ SpawnNode
  \/ \E i \in DOMAIN outer : SpawnUnit(i) \/ OuterDone(i)
  \/ \E u \in DOMAIN upc : Load(u) \/ Create(u) \/ Send(u)
  \/ Wait
  \/ Collect

Spec == Init /\ [][Next]_vars
UnitSpec == UnitInit /\ [][Next]_vars
RepeatSpec == RepeatInit /\ [][Next]_vars
ConcurrentSpec == ConcurrentInit /\ [][Next]_vars
RegistrySpec == RegistryInit /\ [][RegistryNext]_vars
PullSpec == PullInit /\ [][PullNext]_vars
PinSpec == PinInit /\ [][PinNext]_vars

\* ------------------------------------------------------------- ResetImage
\* A reset that rewrites the whole default entry.
ResetWrite_WholeEntry(st, c) ==
  IF st[<<c.Name, "">>] = NoEntry THEN st
  ELSE [st EXCEPT ![<<c.Name, "">>] =
          NodeContainerConfig(c.Name, NoImage, NoImage, << >>)]

\* conf := configFor(c.Name); conf.SetField("", "PinnedImage", "")
ResetWrite(st, c) == StoreSetPinned(st, "", c.Name, NoImage)

\* NodeContainerConfig.ResetImage, called between recreation runs.
ResetImage(c) ==
  /\ mainpc \in {"idle", "returned"}
  /\ opsDone < MaxOps
  /\ \E ok \in Faulty(env, "setfield") :
       /\ store' = IF ok THEN ResetWrite(store, c) ELSE store
       /\ lastOp' = [op |-> "ResetImage", pool |-> "", c |-> c,
                     err |-> IF ok THEN NoErr ELSE StoreErr("SetField"),
                     storeCalls |-> 1, before |-> store, runsLeft |-> runsLeft]
  /\ opsDone' = opsDone + 1
  /\ UNCHANGED <<cont, cluster, env, pullT, pinT, hook, runsLeft, mainpc,
                 runVars, prev>>

\* One node and one configuration (any declared image, with an override
\* entry for another pool), up to MaxRuns runs and MaxOps resets.
ResetInit ==
  /\ pullT = NoPull /\ pinT = NoPin
  /\ \E s \in 0..2, c0 \in {"absent", "running"} :
       World(1, 1, s, c0, RepeatFaults, MaxRuns)

\* ResetImage is called on a configuration loaded from the store.
ResetNext ==
  \/ Next
  \/ \E j \in 1..Len(AllNames) :
       /\ StoreLoad(store, "", AllNames[j]).err = NoErr
       /\ ResetImage(StoreLoad(store, "", AllNames[j]).cfg)

ResetSpec == ResetInit /\ [][ResetNext]_vars

\* The Go scheduler runs every goroutine that can take a step: the run
\* itself once started, each per-node goroutine and each unit.
MainStep == FindNames \/ ListNodes \/ SpawnNode \/ Wait \/ Collect
OuterStep(i) == i \in DOMAIN outer /\ (SpawnUnit(i) \/ OuterDone(i))
UnitStep(u) == u \in DOMAIN upc /\ (Load(u) \/ Create(u) \/ Send(u))

Fairness ==
  /\ WF_vars(MainStep)
  /\ \A i \in 1..MaxUnits : WF_vars(OuterStep(i))
  /\ \A i \in 1..MaxUnits, j \in 1..MaxUnits : WF_vars(UnitStep(<<i, j>>))

FairSpec == Init /\ [][Next]_vars /\ Fairness

\* ------------------------------------------------------------------ claims
Failed(u) == uerr[u] # NoErr
FailingUnits == {u \in DOMAIN uerr : Failed(u)}
Returned == mainpc = "returned"
\* The run got past enumerating the names and the nodes: it made the
\* channel, and closed it before returning.
FannedOut == Returned /\ closed

\* C1: a started recreation run eventually returns to its caller, whichever
\* units fail, when every goroutine that can step is scheduled.
C1_RunTerminates == (mainpc = "names") ~> Returned

\* Exactly one entry per failing unit, carrying what that unit reported,
\* and none for any other unit.
OneEntryPerFailure(errs) ==
  /\ \A u \in DOMAIN uerr :
       Cardinality({k \in 1..Len(errs) : errs[k].src = u}) =
         IF Failed(u) THEN 1 ELSE 0
  /\ \A k \in 1..Len(errs) : errs[k].err = uerr[errs[k].src]

NoFailureDropped ==
  /\ (result = NoErr) <=> (FailingUnits = {})
  /\ result # NoErr =>
       /\ result.type = "multiple"
       /\ OneEntryPerFailure(result.errs)

\* C2 as stated: whenever a run returns, it returns nil iff no unit failed,
\* and otherwise one composite error with exactly one entry per failing unit.
C2_AnyReturn == Returned => NoFailureDropped

\* C2, amended: whenever a run that enumerated the configuration names and
\* obtained its node list returns, it returns nil iff no unit failed, and
\* otherwise one composite error with exactly one entry per failing unit.
C2_NoFailureDropped == FannedOut => NoFailureDropped

C2_Witness ==
  /\ FannedOut
  /\ Cardinality(FailingUnits) = 2
  /\ \E u \in DOMAIN upc : upc[u] = "done" /\ ~Failed(u)
  /\ result # NoErr

\* The per-node goroutines are all through; a step that starts a goroutine.
AllOutersDone ==
  DOMAIN outer # {} /\ \A i \in DOMAIN outer : outer[i].pc = "done"
Spawn == SpawnNode \/ \E i \in DOMAIN outer : SpawnUnit(i)

\* C3: every (node, name) unit is started exactly once, with that node's
\* own address and pool and that name, whether or not other units fail: once
\* the per-node goroutines are through, each pair has exactly one started
\* unit; a unit not yet started can always be started next; and a unit that
\* succeeded left its container running on its own node.
C3_EveryUnitStartedOnce ==
  /\ AllOutersDone =>
       \A i \in 1..Len(nodes), j \in 1..Len(confNames) :
         Cardinality({u \in DOMAIN upc :
                        /\ upc[u] # "new"
                        /\ uarg[u] = [node |-> nodes[i], confName |-> confNames[j]]}) = 1
  /\ (\E u \in DOMAIN upc : upc[u] = "new") => ENABLED Spawn
  /\ \A u \in DOMAIN upc :
       (upc[u] = "done" /\ ~Failed(u)) =>
         cont[<<nodes[u[1]].Address, confNames[u[2]]>>] = "running"

C3_Witness ==
  /\ AllOutersDone
  /\ Len(nodes) >= 2
  /\ \E u, v \in DOMAIN upc :
       /\ upc[u] = "done" /\ Failed(u)
       /\ upc[v] = "done" /\ ~Failed(v)

\* C4: pullWithRetry(image, maxTries) makes at most maxTries pull calls; if
\* attempt k is the first to succeed it returns success after exactly k
\* calls; if all fail it returns the error of the last attempt after exactly
\* maxTries calls.
C4_PullWithRetry ==
  pullT.called =>
    LET n == pullT.maxTries
        out == pullT.out
        oks == {k \in 1..n : pullT.script[k]}
    IN /\ out.calls <= n
       /\ oks # {} =>
            /\ out.ok /\ out.err = 0
            /\ out.calls \in oks /\ \A k \in oks : out.calls <= k
       /\ oks = {} => (~out.ok /\ out.calls = n /\ out.err = n)

C4_Witness ==
  /\ pullT.called
  /\ pullT.maxTries = PullTries
  /\ ~pullT.script[1] /\ ~pullT.script[2] /\ pullT.script[3]
  /\ pullT.out.ok /\ pullT.out.calls = PullTries

\* The create, remove and start calls of a unit, in the order made.
IsLifecycle(c) == c.op \in {"CreateContainer", "RemoveContainer", "StartContainer"}
Lifecycle(t) == SelectSeq(t, IsLifecycle)
Ops(t) == [k \in 1..Len(t) |-> t[k].op]
CreateOver(u) == upc[u] \in {"send", "done"}
\* The unit's create call found the container existing.
FoundExisting(u) ==
  /\ CreateOver(u)
  /\ Lifecycle(trace[u]) # << >>
  /\ Lifecycle(trace[u])[1].res = "exists"

AbsorbedThenStart == <<"CreateContainer", "StartContainer">>
RemovedAndRetried ==
  <<"CreateContainer", "RemoveContainer", "CreateContainer", "StartContainer">>

\* C5 as stated: when the container already exists, relaunch=false makes
\* one create and then a start with no remove, and relaunch=true makes one
\* create, one forced remove, one retried create and then the start.
C5_AlwaysRetriedAndStarted ==
  \A u \in DOMAIN upc :
    FoundExisting(u) =>
      Ops(Lifecycle(trace[u])) =
        IF relaunch THEN RemovedAndRetried ELSE AbsorbedThenStart

\* C5, amended: with relaunch=false the 'already exists' result is absorbed,
\* no remove is issued and a start follows; with relaunch=true exactly one
\* forced remove is issued; if it fails nothing follows; if it succeeds
\* exactly one retried create follows, and the start follows unless that
\* create fails with an error other than 'already exists'.
C5_ExistingContainer ==
  \A u \in DOMAIN upc :
    FoundExisting(u) =>
      LET L == Lifecycle(trace[u]) IN
        IF ~relaunch THEN Ops(L) = AbsorbedThenStart
        ELSE /\ Len(L) >= 2
             /\ Ops(L) = SubSeq(RemovedAndRetried, 1, Len(L))
             /\ (L[2].res = "err") <=> (Len(L) = 2)
             /\ Len(L) >= 3 => ((L[3].res = "err") <=> (Len(L) = 3))

C5_Witness ==
  \E u \in DOMAIN upc :
    /\ FoundExisting(u) /\ relaunch
    /\ Ops(Lifecycle(trace[u])) = RemovedAndRetried
    /\ upc[u] = "done" /\ ~Failed(u)

\* No unit of the run called RemoveContainer.
NoRemoveCall ==
  \A u \in DOMAIN trace :
    \A k \in 1..Len(trace[u]) : trace[u][k].op # "RemoveContainer"

\* C6: if a run with relaunch=false completed without error, a second run
\* with relaunch=false over the same nodes (pulls, configuration loads and
\* the engine not failing) returns no error, issues no remove call and
\* leaves the same containers, all running.
C6_Idempotent ==
  ( /\ Returned
    /\ prev # NoRun
    /\ prev.result = NoErr /\ ~prev.relaunch
    /\ ~relaunch /\ nodes = prev.nodes )
  => /\ result = NoErr
     /\ NoRemoveCall
     /\ cont = prev.cont
     /\ \A u \in DOMAIN upc :
          cont[<<nodes[u[1]].Address, confNames[u[2]]>>] = "running"

\* One of the unit's PullImage calls succeeded.
PullSucceeded(u) ==
  \E k \in 1..Len(trace[u]) :
    trace[u][k].op = "PullImage" /\ trace[u][k].res = "ok"

\* C7: for every unit whose image pull succeeded the create call is issued,
\* whatever the outcome of the pinning steps.
C7_PinningNeverBlocks ==
  \A u \in DOMAIN upc :
    (CreateOver(u) /\ PullSucceeded(u)) =>
      \E k \in 1..Len(trace[u]) : trace[u][k].op = "CreateContainer"

\* C8: a unit writes the stored PinnedImage only when ShouldPin holds for
\* the pulled image and a digest was extracted, and the value written is
\* image@digest; otherwise it issues no store write.
C8_PinWrittenOnlyWithDigest ==
  \A u \in DOMAIN upc :
    \A k \in 1..Len(trace[u]) :
      trace[u][k].op = "SetField" =>
        LET img == trace[u][1].arg IN
          /\ shouldPinImage(img)
          /\ trace[u][k].arg = SprintfAt(img, Digest1)

\* The input of a registry call that validate must reject.
Invalid(op) == op.c.Name = "" \/ (op.c.Image # NoImage /\ op.pool # "")

\* C9: AddNewContainer and UpdateContainer fail with a ValidationErr when
\* Name is empty or when Config.Image is set for a non-empty pool, before
\* any store call, leaving the store as it was.
C9_ValidationBeforeStore ==
  (lastOp # NoOp /\ Invalid(lastOp)) =>
    /\ lastOp.err.type = "validation"
    /\ lastOp.storeCalls = 0
    /\ store = lastOp.before

C9_Witness ==
  /\ lastOp # NoOp
  /\ lastOp.op = "UpdateContainer"
  /\ lastOp.c.Name # "" /\ lastOp.c.Image # NoImage /\ lastOp.pool # ""
  /\ lastOp.err.type = "validation"
  /\ \E k \in DOMAIN store : store[k] # NoEntry

\* The entries of a composite error are failures reported by this run's units.
BuiltFromUnitFailures(errs) ==
  /\ Len(errs) >= 1
  /\ \A k \in 1..Len(errs) :
       Failed(errs[k].src) /\ errs[k].err = uerr[errs[k].src]

\* C10 as stated: every non-nil error a run returns is the composite built
\* from the unit failures of that run.
C10_OnlyAggregate ==
  (Returned /\ result # NoErr) =>
    (result.type = "multiple" /\ BuiltFromUnitFailures(result.errs))

\* C10, amended: a non-nil error returned by a run is either the error of
\* enumerating the configuration names or of listing the nodes, returned as
\* it is before any unit is started, or the composite built from the unit
\* failures of that run.
C10_AggregateOrEarlyError ==
  (Returned /\ result # NoErr) =>
    IF closed
    THEN result.type = "multiple" /\ BuiltFromUnitFailures(result.errs)
    ELSE /\ result \in {StoreErr("FindAllScopedConfigNames"),
                        [type |-> "cluster", op |-> "UnfilteredNodes"]}
         /\ DOMAIN upc = {}

C10_Witness ==
  /\ Returned /\ ~closed
  /\ result = [type |-> "cluster", op |-> "UnfilteredNodes"]
  /\ confNames # << >>

\* The context an error entry carries: field f with value v.
Carries(e, f, v) == f \in DOMAIN e /\ e[f] = v

\* C11: every failure entry of the composite error carries the node
\* address, the pool and the configuration name of the unit that reported
\* it, whether the unit failed loading its configuration or in create/start.
C11_EntryIdentifiesUnit ==
  (FannedOut /\ result # NoErr) =>
    \A k \in 1..Len(result.errs) :
      LET e == result.errs[k].err
          a == uarg[result.errs[k].src]
      IN /\ Carries(e, "addr", a.node.Address)
         /\ Carries(e, "pool", a.node.pool)
         /\ Carries(e, "name", a.confName)

\* A hook call that got past InitializeBS.
HookRan == hook.pc \in {"running", "returned"} /\ hook.ran

\* C12: RunClusterHook initializes the baseline configuration first and,
\* when that fails, returns the wrapped error without starting any unit;
\* otherwise it runs recreation with relaunch=false for the single affected
\* node: no unit of the hook run issues a RemoveContainer call, every unit
\* started belongs to that node, the containers of the other nodes stay as
\* they were and no existing container disappears.
C12_HookSingleNodeNoRemove ==
  /\ (hook.pc = "returned" /\ ~hook.ran) =>
       /\ hook.err.type = "hook"
       /\ hook.err.stage = "unable to initialize bs node container"
       /\ mainpc = "idle" /\ DOMAIN upc = {} /\ DOMAIN outer = {}
       /\ cont = hook.cont0
  /\ HookRan =>
       /\ ~relaunch
       /\ NoRemoveCall
       /\ mainpc # "names" => nodes = <<hook.node>>
       /\ \A u \in DOMAIN upc :
            upc[u] # "new" => uarg[u].node = hook.node
       /\ \A k \in DOMAIN cont :
            /\ k[1] # hook.node.Address => cont[k] = hook.cont0[k]
            /\ hook.cont0[k] # "absent" => cont[k] # "absent"
            /\ hook.cont0[k] = "running" => cont[k] = "running"

C12_Witness ==
  /\ hook.pc = "returned" /\ hook.ran /\ hook.err = NoErr
  /\ Len(cluster) >= 2 /\ hook.node = cluster[2]
  /\ \E u \in DOMAIN upc :
       /\ FoundExisting(u)
       /\ upc[u] = "done" /\ ~Failed(u)
       /\ hook.cont0[<<hook.node.Address, uarg[u].confName>>] = "running"

\* An image reference read as name[:tag][@digest]: the digest is what
\* follows "@", the tag what follows ":" in the last path component of the
\* part before "@".
RECURSIVE LastIndexOf(_, _, _)
LastIndexOf(s, sep, i) ==
  IF i = 0 THEN 0 ELSE IF s[i] = sep THEN i ELSE LastIndexOf(s, sep, i - 1)

HasDigest(ref) == IndexOf(ref, "@", 1) # 0
RefName(ref) ==
  IF HasDigest(ref) THEN SubSeq(ref, 1, IndexOf(ref, "@", 1) - 1) ELSE ref
RefLastComponent(ref) ==
  LET n == RefName(ref) IN SubSeq(n, LastIndexOf(n, "/", Len(n)) + 1, Len(n))
HasTag(ref) == IndexOf(RefLastComponent(ref), ":", 1) # 0
RefTag(ref) ==
  LET c == RefLastComponent(ref) IN SubSeq(c, IndexOf(c, ":", 1) + 1, Len(c))
NoTagOrLatest(ref) == ~HasTag(ref) \/ RefTag(ref) = <<"latest">>

\* C13 as stated: shouldPinImage(image) is true if and only if the reference
\* has no explicit tag or its tag is "latest", for references with and
\* without host, port, nested path, tag and digest suffix.
C13_NoTagOrLatest ==
  pinT.called => (pinT.out <=> NoTagOrLatest(pinT.image))

\* C13, amended: shouldPinImage(image) is true if and only if the reference
\* has no digest suffix and has no explicit tag or the tag "latest"; "x/y:v1"
\* gives false, "x/y:latest" true and "x/y" true.
C13_ShouldPin ==
  /\ pinT.called =>
       (pinT.out <=> (~HasDigest(pinT.image) /\ NoTagOrLatest(pinT.image)))
  /\ ~shouldPinImage(ImgTagged) /\ shouldPinImage(ImgLatest) /\ shouldPinImage(ImgFloat)

C13_Witness ==
  /\ pinT.called
  /\ pinT.image = <<"h", ":", "5000", "/", "a", "/", "b", "/", "y", ":", "latest">>
  /\ pinT.out

\* Every PullImage and CreateContainer call of trace t names image img.
UsesImage(t, img) ==
  \A k \in 1..Len(t) :
    t[k].op \in {"PullImage", "CreateContainer"} => t[k].arg = img
HasCall(t, op) == \E k \in 1..Len(t) : t[k].op = op

\* C14: the create of a unit pulls, and creates the container with, the
\* effective image of the configuration it loaded: PinnedImage when that is
\* not empty, otherwise Config.Image; a configuration loaded with a
\* PinnedImage is not pinned again (no store write).
C14_EffectiveImageUsed ==
  [][\A u \in DOMAIN upc :
       (upc[u] = "create" /\ u \in DOMAIN upc' /\ upc'[u] # "create") =>
         LET c == ucfg[u]
             effective == IF c.PinnedImage # NoImage THEN c.PinnedImage ELSE c.Image
         IN /\ UsesImage(trace'[u], effective)
            /\ c.PinnedImage # NoImage => ~HasCall(trace'[u], "SetField")]_vars

C14_Witness ==
  \E u \in DOMAIN upc :
    /\ upc[u] = "done" /\ ~Failed(u)
    /\ prev # NoRun
    /\ trace[u][1] = Call("PullImage", "ok", SprintfAt(ImgFloat, Digest1))
    /\ HasCall(trace[u], "CreateContainer")
    /\ UsesImage(trace[u], SprintfAt(ImgFloat, Digest1))
    /\ ~HasCall(trace[u], "SetField")

\* A goroutine that was started and has not ended.
OuterRunning(i) == outer[i].pc = "run"
UnitRunning(u) == upc[u] \in {"load", "create", "send"}
AllTasksFinished ==
  /\ \A i \in DOMAIN outer : outer[i].pc = "done"
  /\ \A u \in DOMAIN upc : upc[u] = "done"

PinWrites(u) ==
  {trace[u][k].arg :
     k \in {k \in 1..Len(trace[u]) :
              trace[u][k].op = "SetField" /\ trace[u][k].res = "ok"}}

\* C16: the units of a run that process one floating-tag configuration on
\* different nodes all write the same PinnedImage value, in every
\* interleaving: no unit writes a value (the empty one included) that
\* differs from what another unit stored.
C16_PinWritesAgree ==
  \A u, v \in DOMAIN upc :
    uarg[u].confName = uarg[v].confName =>
      \A a \in PinWrites(u), b \in PinWrites(v) : a = b

\* The number of failures unit u has handed to the collector: its entries
\* in the channel and in the composite error drained from it.
CountOf(errs, u) == Cardinality({k \in 1..Len(errs) : errs[k].src = u})
Reports(u) ==
  CountOf(errChan, u) +
    (IF result.type = "multiple" THEN CountOf(result.errs, u) ELSE 0)

\* C17: a unit that has ended either returned success from create, with its
\* container running on its node and no failure reported, or reported
\* exactly one failure; no unit reports more than one failure, and none
\* reports before it ends or after a success.
C17_OneOutcomePerUnit ==
  \A u \in DOMAIN upc :
    /\ Reports(u) <= 1
    /\ upc[u] # "done" => Reports(u) = 0
    /\ upc[u] = "done" =>
         IF Failed(u) THEN Reports(u) = 1
         ELSE /\ Reports(u) = 0
              /\ cont[<<uarg[u].node.Address, uarg[u].confName>>] = "running"

C17_Witness ==
  \E u \in DOMAIN upc :
    /\ Returned /\ result = NoErr
    /\ upc[u] = "done" /\ ~Failed(u)
    /\ Ops(Lifecycle(trace[u])) = <<"CreateContainer", "StartContainer">>
    /\ Lifecycle(trace[u])[1].res = "ok" /\ Lifecycle(trace[u])[2].res = "ok"
    /\ cont[<<uarg[u].node.Address, uarg[u].confName>>] = "running"

\* The place of a call in the sequence pull, pin update, create (with the
\* remove and retried create of a relaunch), start.
StepRank(op) ==
  CASE op = "PullImage" -> 1
    [] op = "SetField" -> 2
    [] op \in {"CreateContainer", "RemoveContainer"} -> 3
    [] op = "StartContainer" -> 4
IsLast(t, k) == k = Len(t)
FailedAt(t, op) == \E k \in 1..Len(t) : t[k].op = op /\ t[k].res = "err"
PullsFailed(t) ==
  Cardinality({k \in 1..Len(t) : t[k].op = "PullImage" /\ t[k].res = "err"})

\* C18: the calls of a unit are ordered pull, create, start; after 3 failed
\* pull attempts no create, remove or start call is issued; after a create
\* error other than 'already exists' or a failed forced remove no start
\* call is issued; a start error other than 'already running' is the
\* failure the unit reports.
C18_OrderedAndFatalStops ==
  \A u \in DOMAIN upc :
    CreateOver(u) =>
      LET t == trace[u] IN
        /\ \A k, l \in 1..Len(t) : k < l => StepRank(t[k].op) <= StepRank(t[l].op)
        /\ \A k \in 1..Len(t) :
             /\ t[k].op = "PullImage" => (t[k].res = "ok" => (k = Len(t) \/ t[k + 1].op # "PullImage"))
             /\ t[k].op = "StartContainer" => IsLast(t, k)
             /\ (t[k].op \in {"CreateContainer", "RemoveContainer"} /\ t[k].res = "err")
                  => IsLast(t, k)
        /\ PullsFailed(t) <= PullTries
        /\ PullsFailed(t) = PullTries => (Len(t) = PullTries /\ Failed(u))
        /\ HasCall(t, "CreateContainer") =>
             \E k \in 1..Len(t) : t[k].op = "PullImage" /\ t[k].res = "ok"
        /\ (FailedAt(t, "CreateContainer") \/ FailedAt(t, "RemoveContainer"))
             => (~HasCall(t, "StartContainer") /\ Failed(u))
        /\ FailedAt(t, "StartContainer") =>
             uerr[u] = CreateMsg(uarg[u].node, uarg[u].node.pool,
                                 EngineErr("StartContainer"))

C18_Witness ==
  \E u \in DOMAIN upc :
    /\ upc[u] = "done" /\ Failed(u)
    /\ Ops(trace[u]) = <<"PullImage", "PullImage", "PullImage">>
    /\ PullsFailed(trace[u]) = PullTries
    /\ uerr[u].cause = PullErr(PullTries)

Processed(name) == \E j \in 1..Len(confNames) : confNames[j] = name

\* C19: no step of a recreation run creates or deletes a configuration
\* entry, and the only change a step makes to the store is the PinnedImage
\* of the default (pool = "") entry of a configuration the run processes;
\* hence after any run, whichever units failed, the store has the entries
\* it had before.
C19_StoreFrame ==
  [][/\ DOMAIN store' = DOMAIN store
     /\ \A k \in DOMAIN store :
          /\ (store[k] = NoEntry) <=> (store'[k] = NoEntry)
          /\ store'[k] # store[k] =>
               /\ k[2] = "" /\ Processed(k[1])
               /\ store'[k] = [store[k] EXCEPT !.PinnedImage = store'[k].PinnedImage]
    ]_vars

C19_Witness ==
  /\ Returned /\ result # NoErr
  /\ \E u \in DOMAIN upc :
       /\ Failed(u)
       /\ PinWrites(u) = {SprintfAt(ImgFloat, Digest1)}
       /\ store[<<uarg[u].confName, "">>].PinnedImage = SprintfAt(ImgFloat, Digest1)
       /\ store[<<uarg[u].confName, PoolB>>] # NoEntry

\* The last registry call was a ResetImage that the store applied.
ResetDone == lastOp # NoOp /\ lastOp.op = "ResetImage" /\ lastOp.err = NoErr

\* C20: after a successful ResetImage the PinnedImage of the default entry
\* is empty and every other field and entry is as before, a configuration
\* loaded then (for any pool) has effective image Config.Image, and the
\* unit of the next recreation run pulls Config.Image.
C20_ResetUndoesPin ==
  ResetDone =>
    LET name == lastOp.c.Name
        declared == lastOp.before[<<name, "">>].Image
    IN /\ runsLeft = lastOp.runsLeft =>
            /\ store[<<name, "">>].PinnedImage = NoImage
            /\ store = [lastOp.before EXCEPT ![<<name, "">>].PinnedImage = NoImage]
            /\ \A pool \in Scopes : image(StoreLoad(store, pool, name).cfg) = declared
       /\ runsLeft = lastOp.runsLeft - 1 =>
            \A u \in DOMAIN upc :
              (uarg[u].confName = name /\ trace[u] # << >>) =>
                (trace[u][1].op = "PullImage" /\ trace[u][1].arg = declared)

C20_Witness ==
  /\ ResetDone
  /\ lastOp.before[<<lastOp.c.Name, "">>].PinnedImage = SprintfAt(ImgFloat, Digest1)
  /\ runsLeft = lastOp.runsLeft - 1
  /\ \E u \in DOMAIN upc :
       /\ upc[u] = "done" /\ ~Failed(u)
       /\ UsesImage(trace[u], ImgFloat)
       /\ HasCall(trace[u], "CreateContainer")

====
